---- MODULE Spec2Model ----
(***************************************************************************)
(* owlkit credential store: CredentialManager of                           *)
(* src/owlkit/config/credentials.py, with the OS secret store (keyring),   *)
(* the configuration directory, the key file <config-dir>/.key and the     *)
(* encrypted blob <config-dir>/credentials.enc as its state.               *)
(***************************************************************************)
EXTENDS Naturals, Sequences, FiniteSets, TLC

\* ------------------------------------------------------------------ bounds
\* At most this many credentials are held by the OS store and the blob's JSON
\* object together.
MaxStored == 2
\* At most this many keys are ever written to the key file.
MaxKeys == 2

\* ------------------------------------------------------------------ values
None == "None"
Absent == "absent"
\* Contents of the key file: no file, bytes that are not a Fernet key (a
\* truncated write), or the n-th key that Fernet.generate_key() produced.
NoKey == [kind |-> "absent", id |-> 0]
BadKey == [kind |-> "bad", id |-> 0]
KeyBytes(n) == [kind |-> "key", id |-> n]
Secrets == {"x", "y"}

\* Service and identity names are character sequences; ':' may occur in them.
nA == <<"a">>
nB == <<"b">>
nAA == <<"a", ":", "a">>
\* The (service, username) arguments the operations are called with: two
\* delimiter-free pairs and two pairs whose composite keys collide.
Pairs == {<<nA, nB>>, <<nB, nA>>, <<nA, nAA>>, <<nAA, nA>>}

\* f"{service}:{username}"
FullKey(service, username) == service \o <<":">> \o username

\* ------------------------------------------------------------ python dicts
EmptyDict == [k \in {} |-> None]
DictSet(d, k, v) == [x \in (DOMAIN d) \cup {k} |-> IF x = k THEN v ELSE d[x]]
DictDel(d, k) == [x \in (DOMAIN d) \ {k} |-> d[x]]
DictGet(d, k) == IF k \in DOMAIN d THEN d[k] ELSE None

\* ------------------------------------------------------- json and Fernet
\* A byte payload is JSON text of an object ("obj", with its mapping), JSON
\* text of a value that is no object, such as [] or 0 or null ("nonobj"), or
\* text that is not JSON ("text").
JsonDumps(d) == [kind |-> "obj", map |-> d]
NonObjData == [kind |-> "nonobj", map |-> EmptyDict]
TextData == [kind |-> "text", map |-> EmptyDict]
\* json.loads: raises on text that is not JSON.
JsonLoads(data) ==
  IF data.kind = "text"
  THEN [raised |-> TRUE, value |-> NonObjData]
  ELSE [raised |-> FALSE, value |-> data]

\* File contents of credentials.enc: no file, bytes that are no Fernet token
\* (also a truncated write), or a token made under a key.
NoFile == [kind |-> "absent", key |-> NoKey, data |-> TextData]
GarbageFile == [kind |-> "garbage", key |-> NoKey, data |-> TextData]
\* Fernet(key): raises ValueError unless the key is a well-formed key.
FernetValid(key) == key.kind = "key"
\* Fernet(key).encrypt(data)
Encrypt(key, data) == [kind |-> "enc", key |-> key, data |-> data]
\* Fernet(key).decrypt(token): raises InvalidToken unless the token was made
\* under this key.
Decrypt(key, token) ==
  IF token.kind = "enc" /\ token.key = key
  THEN [raised |-> FALSE, data |-> token.data]
  ELSE [raised |-> TRUE, data |-> TextData]

\* ------------------------------------------------------------------- state
VARIABLES
  constructed,        \* a CredentialManager instance exists
  KEYRING_AVAILABLE,  \* the instance's backend flag (class default True)
  keyring,            \* the OS store under SERVICE_NAME: composite key -> secret
  dirMode,            \* mode of the configuration directory, or Absent
  keyFile,            \* contents of <config-dir>/.key
  generated,          \* how many generated keys have been written to the key file
  keyMode,            \* mode of the key file
  credsFile,          \* contents of <config-dir>/credentials.enc
  credsMode,          \* mode of the blob file
  last,               \* the last completed call: its method, and for
                      \* __init__, set_credential and delete_credential
                      \* its arguments and how it ended
  sb,                 \* ~/.sevenbridges and its credentials file, with the
                      \* last completed call of SBPackManager
  race,               \* two processes inside set_credential's file branch
                      \* on one configuration directory, and the blob file
                      \* as the blocks of bytes they write
  ghcr,               \* a GHCRManager instance: username, _authenticated,
                      \* the tokens its CredentialManager holds, and the
                      \* last completed call
  first               \* two processes in their first file-backend
                      \* set_credential on one empty configuration
                      \* directory, with the key file and the blob file

credVars == <<constructed, KEYRING_AVAILABLE, keyring, dirMode, keyFile, generated,
              keyMode, credsFile, credsMode, last>>
vars == <<constructed, KEYRING_AVAILABLE, keyring, dirMode, keyFile, generated,
          keyMode, credsFile, credsMode, last, sb, race, ghcr, first>>

\* What a method of the instance reads and writes, as one record.
Self == [KEYRING_AVAILABLE |-> KEYRING_AVAILABLE, keyring |-> keyring,
         dirMode |-> dirMode, keyFile |-> keyFile, generated |-> generated,
         keyMode |-> keyMode,
         credsFile |-> credsFile, credsMode |-> credsMode]

\* What the environment decides during one call: whether the OS-store call
\* raises, whether the write of the key file or of the blob file fails (the
\* open is refused, or the file is left truncated).
IoOutcomes == {"ok", "denied", "partial"}
Envs == {e \in [kr : {"ok", "raise"}, ioKey : IoOutcomes, ioCreds : IoOutcomes] :
           e.ioKey # "ok" => e.ioCreds = "ok"}
AllOk == [kr |-> "ok", ioKey |-> "ok", ioCreds |-> "ok"]
\* The outcomes that can matter in the current state.
EnvsFor(self) ==
  {e \in Envs : /\ (~self.KEYRING_AVAILABLE => e.kr = "ok")
                /\ (self.keyFile # NoKey => e.ioKey = "ok")}

\* ----------------------------------------------------------------- methods
\* CredentialManager.__init__: mkdir(exist_ok=True, mode=0o700) leaves an
\* existing directory as it is; the probe decides the backend flag, which
\* starts from the class attribute True.
CredentialManagerInit(self, env) ==
  [self EXCEPT !.dirMode = IF self.dirMode = Absent THEN "0o700" ELSE self.dirMode,
               !.KEYRING_AVAILABLE = (env.kr = "ok")]

\* Mutant of _get_or_create_key: a new key is generated and written on
\* every call, whether or not the key file exists.
KeyRegenerated(self, env) ==
  CASE env.ioKey = "ok" ->
         [self |-> [self EXCEPT !.keyFile = KeyBytes(self.generated + 1),
                                !.generated = self.generated + 1,
                                !.keyMode = "0o600"],
          ret |-> KeyBytes(self.generated + 1), raised |-> FALSE]
    [] env.ioKey = "denied" ->
         [self |-> self, ret |-> NoKey, raised |-> TRUE]
    [] env.ioKey = "partial" ->
         [self |-> [self EXCEPT !.keyFile = BadKey, !.keyMode = "0o644"],
          ret |-> NoKey, raised |-> TRUE]

\* CredentialManager._get_or_create_key. A file that open() creates has the
\* default mode 0o644 until os.chmod is reached.
_get_or_create_key(self, env) ==
  IF self.keyFile # NoKey
  THEN [self |-> self, ret |-> self.keyFile, raised |-> FALSE]
  ELSE CASE env.ioKey = "ok" ->
              [self |-> [self EXCEPT !.keyFile = KeyBytes(self.generated + 1),
                                     !.generated = self.generated + 1,
                                     !.keyMode = "0o600"],
               ret |-> KeyBytes(self.generated + 1), raised |-> FALSE]
         [] env.ioKey = "denied" ->
              [self |-> self, ret |-> NoKey, raised |-> TRUE]
         [] env.ioKey = "partial" ->
              [self |-> [self EXCEPT !.keyFile = BadKey, !.keyMode = "0o644"],
               ret |-> NoKey, raised |-> TRUE]

\* open(creds_file, 'rb'), read, f.decrypt, json.loads in one try body.
LoadCreds(self, key) ==
  LET dec == Decrypt(key, self.credsFile)
      js == JsonLoads(dec.data)
  IN IF dec.raised \/ js.raised
     THEN [raised |-> TRUE, creds |-> NonObjData]
     ELSE [raised |-> FALSE, creds |-> js.value]

\* Mutant of WriteCreds: a refused or truncated write is swallowed instead
\* of leaving the method as an exception.
WriteCredsSwallowed(self, token, io) ==
  LET mode == IF self.credsFile.kind = "absent" THEN "0o644" ELSE self.credsMode
  IN CASE io = "ok" ->
            [self |-> [self EXCEPT !.credsFile = token, !.credsMode = mode],
             raised |-> FALSE]
       [] io = "denied" -> [self |-> self, raised |-> FALSE]
       [] io = "partial" ->
            [self |-> [self EXCEPT !.credsFile = GarbageFile, !.credsMode = mode],
             raised |-> FALSE]

\* with open(creds_file, 'wb') as file: file.write(encrypted_data)
WriteCreds(self, token, io) ==
  LET mode == IF self.credsFile.kind = "absent" THEN "0o644" ELSE self.credsMode
  IN CASE io = "ok" ->
            [self |-> [self EXCEPT !.credsFile = token, !.credsMode = mode],
             raised |-> FALSE]
       [] io = "denied" -> [self |-> self, raised |-> TRUE]
       [] io = "partial" ->
            [self |-> [self EXCEPT !.credsFile = GarbageFile, !.credsMode = mode],
             raised |-> TRUE]

\* The try body of get_credential's file branch.
GetCredentialTry(self, full_key, env) ==
  LET k == _get_or_create_key(self, env)
      ld == LoadCreds(k.self, k.ret)
  IN IF k.raised \/ ~FernetValid(k.ret) \/ ld.raised \/ ld.creds.kind # "obj"
     THEN [self |-> k.self, ret |-> None, raised |-> TRUE]
     ELSE [self |-> k.self, ret |-> DictGet(ld.creds.map, full_key), raised |-> FALSE]

\* Mutant of get_credential: the file branch has no try/except, so a
\* failure to decrypt or parse leaves the method as an exception.
GetCredentialUnguarded(self, service, username, env) ==
  LET full_key == FullKey(service, username)
      t == GetCredentialTry(self, full_key, env)
  IN IF self.KEYRING_AVAILABLE /\ env.kr = "ok"
     THEN [self |-> self, ret |-> DictGet(self.keyring, full_key), raised |-> FALSE]
     ELSE IF self.credsFile.kind # "absent"
          THEN t
          ELSE [self |-> self, ret |-> None, raised |-> FALSE]

\* Mutant of get_credential: the key is loaded or created before the blob
\* file is looked for.
GetCredentialKeyFirst(self, service, username, env) ==
  LET full_key == FullKey(service, username)
      k == _get_or_create_key(self, env)
      t == GetCredentialTry(self, full_key, env)
  IN IF self.KEYRING_AVAILABLE /\ env.kr = "ok"
     THEN [self |-> self, ret |-> DictGet(self.keyring, full_key), raised |-> FALSE]
     ELSE IF self.credsFile.kind # "absent"
          THEN IF t.raised
               THEN [self |-> t.self, ret |-> None, raised |-> FALSE]
               ELSE t
          ELSE [self |-> k.self, ret |-> None, raised |-> FALSE]

\* CredentialManager.get_credential
get_credential(self, service, username, env) ==
  LET full_key == FullKey(service, username)
      t == GetCredentialTry(self, full_key, env)
  IN IF self.KEYRING_AVAILABLE /\ env.kr = "ok"
     THEN [self |-> self, ret |-> DictGet(self.keyring, full_key), raised |-> FALSE]
     ELSE IF self.credsFile.kind # "absent"
          THEN IF t.raised
               THEN [self |-> t.self, ret |-> None, raised |-> FALSE]
               ELSE t
          ELSE [self |-> self, ret |-> None, raised |-> FALSE]

\* Mutant of SetCredentialFile: the existing blob is not loaded, the new
\* blob holds the one credential only.
SetCredentialFileFresh(self, full_key, password, env) ==
  LET k == _get_or_create_key(self, env)
      w == WriteCreds(k.self,
                      Encrypt(k.ret, JsonDumps(DictSet(EmptyDict, full_key, password))),
                      env.ioCreds)
  IN IF k.raised \/ ~FernetValid(k.ret)
     THEN [self |-> k.self, raised |-> TRUE]
     ELSE IF w.raised
          THEN w
          ELSE [self |-> [w.self EXCEPT !.credsMode = "0o600"], raised |-> FALSE]

\* The file branch of set_credential.
SetCredentialFile(self, full_key, password, env) ==
  LET k == _get_or_create_key(self, env)
      ld == IF k.self.credsFile.kind # "absent"
            THEN LoadCreds(k.self, k.ret)
            ELSE [raised |-> FALSE, creds |-> JsonDumps(EmptyDict)]
      creds == IF ld.raised THEN JsonDumps(EmptyDict) ELSE ld.creds
      w == WriteCreds(k.self,
                      Encrypt(k.ret, JsonDumps(DictSet(creds.map, full_key, password))),
                      env.ioCreds)
  IN IF k.raised \/ ~FernetValid(k.ret)
     THEN [self |-> k.self, raised |-> TRUE]
     ELSE IF creds.kind # "obj"
          THEN [self |-> k.self, raised |-> TRUE]
          ELSE IF w.raised
               THEN w
               ELSE [self |-> [w.self EXCEPT !.credsMode = "0o600"], raised |-> FALSE]

\* Mutant of set_credential: a failing OS-store write marks the instance
\* file-selected for good.
SetCredentialDowngrading(self, service, username, password, env) ==
  LET full_key == FullKey(service, username)
  IN IF self.KEYRING_AVAILABLE /\ env.kr = "ok"
     THEN [self |-> [self EXCEPT !.keyring = DictSet(self.keyring, full_key, password)],
           raised |-> FALSE]
     ELSE SetCredentialFile([self EXCEPT !.KEYRING_AVAILABLE = FALSE],
                            full_key, password, env)

\* CredentialManager.set_credential
set_credential(self, service, username, password, env) ==
  LET full_key == FullKey(service, username)
  IN IF self.KEYRING_AVAILABLE /\ env.kr = "ok"
     THEN [self |-> [self EXCEPT !.keyring = DictSet(self.keyring, full_key, password)],
           raised |-> FALSE]
     ELSE SetCredentialFile(self, full_key, password, env)

\* The try body of delete_credential's file branch. There is no chmod here.
DeleteCredentialTry(self, full_key, env) ==
  LET k == _get_or_create_key(self, env)
      ld == LoadCreds(k.self, k.ret)
  IN IF k.raised \/ ~FernetValid(k.ret) \/ ld.raised
     THEN [self |-> k.self, raised |-> TRUE]
     ELSE IF ld.creds.kind = "obj" /\ full_key \in DOMAIN ld.creds.map
          THEN WriteCreds(k.self,
                          Encrypt(k.ret, JsonDumps(DictDel(ld.creds.map, full_key))),
                          env.ioCreds)
          ELSE [self |-> k.self, raised |-> FALSE]

\* Mutant of delete_credential: the file branch has no try/except.
DeleteCredentialUnguarded(self, service, username, env) ==
  LET full_key == FullKey(service, username)
      s1 == IF self.KEYRING_AVAILABLE /\ env.kr = "ok"
            THEN [self EXCEPT !.keyring = DictDel(self.keyring, full_key)]
            ELSE self
  IN IF s1.credsFile.kind # "absent"
     THEN DeleteCredentialTry(s1, full_key, env)
     ELSE [self |-> s1, raised |-> FALSE]

\* Mutant of delete_credential: the blob is left alone when the OS store's
\* delete raised.
DeleteCredentialOsFirst(self, service, username, env) ==
  LET full_key == FullKey(service, username)
      s1 == IF self.KEYRING_AVAILABLE /\ env.kr = "ok"
            THEN [self EXCEPT !.keyring = DictDel(self.keyring, full_key)]
            ELSE self
      t == DeleteCredentialTry(s1, full_key, env)
  IN IF s1.credsFile.kind # "absent" /\ ~(self.KEYRING_AVAILABLE /\ env.kr = "raise")
     THEN [self |-> t.self, raised |-> FALSE]
     ELSE [self |-> s1, raised |-> FALSE]

\* CredentialManager.delete_credential
delete_credential(self, service, username, env) ==
  LET full_key == FullKey(service, username)
      s1 == IF self.KEYRING_AVAILABLE /\ env.kr = "ok"
            THEN [self EXCEPT !.keyring = DictDel(self.keyring, full_key)]
            ELSE self
      t == DeleteCredentialTry(s1, full_key, env)
  IN IF s1.credsFile.kind # "absent"
     THEN [self |-> t.self, raised |-> FALSE]
     ELSE [self |-> s1, raised |-> FALSE]

\* full_key.split(':', 1)
RECURSIVE FirstColon(_, _)
FirstColon(s, i) ==
  IF i > Len(s) THEN 0 ELSE IF s[i] = ":" THEN i ELSE FirstColon(s, i + 1)
\* Mutant of Split: the two parts come out in the wrong order.
SplitSwapped(full_key) ==
  LET i == FirstColon(full_key, 1)
  IN IF i = 0
     THEN <<full_key>>
     ELSE <<SubSeq(full_key, i + 1, Len(full_key)), SubSeq(full_key, 1, i - 1)>>
Split(full_key) ==
  LET i == FirstColon(full_key, 1)
  IN IF i = 0
     THEN <<full_key>>
     ELSE <<SubSeq(full_key, 1, i - 1), SubSeq(full_key, i + 1, Len(full_key))>>

\* The loop of list_credentials over the stored keys; the unpacking of a
\* split with one part raises and ends the loop with what was collected.
RECURSIVE ListLoop(_, _)
ListLoop(keys, creds) ==
  IF keys = {}
  THEN creds
  ELSE LET full_key == CHOOSE k \in keys : TRUE
           parts == Split(full_key)
           c1 == IF parts[1] \in DOMAIN creds THEN creds ELSE DictSet(creds, parts[1], <<>>)
       IN IF Len(parts) # 2
          THEN creds
          ELSE ListLoop(keys \ {full_key},
                        DictSet(c1, parts[1], Append(c1[parts[1]], parts[2])))

\* CredentialManager.list_credentials
list_credentials(self, env) ==
  LET k == _get_or_create_key(self, env)
      ld == LoadCreds(k.self, k.ret)
  IN IF self.credsFile.kind # "absent"
     THEN IF k.raised \/ ~FernetValid(k.ret) \/ ld.raised \/ ld.creds.kind # "obj"
          THEN [self |-> k.self, ret |-> EmptyDict, raised |-> FALSE]
          ELSE [self |-> k.self, ret |-> ListLoop(DOMAIN ld.creds.map, EmptyDict),
                raised |-> FALSE]
     ELSE [self |-> self, ret |-> EmptyDict, raised |-> FALSE]

\* The same loop with the iteration order given: a dict made by json.loads
\* iterates in the order of the members in the JSON text, so the order is an
\* input. ListLoop is this loop for one order.
RECURSIVE ListLoopOrdered(_, _)
ListLoopOrdered(order, creds) ==
  IF order = <<>>
  THEN creds
  ELSE LET full_key == Head(order)
           parts == Split(full_key)
           c1 == IF parts[1] \in DOMAIN creds THEN creds ELSE DictSet(creds, parts[1], <<>>)
       IN IF Len(parts) # 2
          THEN creds
          ELSE ListLoopOrdered(Tail(order),
                               DictSet(c1, parts[1], Append(c1[parts[1]], parts[2])))

\* The orders in which the members of a JSON object with these keys can
\* stand in the file.
KeyOrders(keys) ==
  {o \in [1..Cardinality(keys) -> keys] :
     \A i, j \in 1..Cardinality(keys) : i # j => o[i] # o[j]}

\* CredentialManager.list_credentials, the blob's members standing in the
\* given order.
list_credentials_ordered(self, env, order) ==
  LET k == _get_or_create_key(self, env)
      ld == LoadCreds(k.self, k.ret)
  IN IF self.credsFile.kind # "absent"
     THEN IF k.raised \/ ~FernetValid(k.ret) \/ ld.raised \/ ld.creds.kind # "obj"
          THEN [self |-> k.self, ret |-> EmptyDict, raised |-> FALSE]
          ELSE [self |-> k.self, ret |-> ListLoopOrdered(order, EmptyDict),
                raised |-> FALSE]
     ELSE [self |-> self, ret |-> EmptyDict, raised |-> FALSE]

\* Python truthiness of an Optional[str].
Truthy(v) == v # None /\ v # ""

\* CredentialManager.prompt_and_store: use_existing and store are the answers
\* to the two questions, credential what getpass returns.
prompt_and_store(self, service, username, use_existing, credential, store, envGet, envSet) ==
  LET g == get_credential(self, service, username, envGet)
      s == set_credential(g.self, service, username, credential, envSet)
  IN IF Truthy(g.ret) /\ use_existing # "n"
     THEN [self |-> g.self, ret |-> g.ret, raised |-> FALSE]
     ELSE IF store # "n"
          THEN [self |-> s.self, ret |-> IF s.raised THEN None ELSE credential,
                raised |-> s.raised]
          ELSE [self |-> g.self, ret |-> credential, raised |-> FALSE]

\* ------------------------------------------- sbpack: the credentials file
\* Option values are character sequences; an endpoint URL is one symbol.
DefaultEndpoint == <<"https://cgc-api.sbgenomics.com/v2">>
PLATFORMS ==
  [p \in {"cgc", "sbg-us", "sbg-eu", "biodata-catalyst", "cavatica"} |->
     [api_endpoint |->
        CASE p = "cgc" -> <<"https://cgc-api.sbgenomics.com/v2">>
          [] p = "sbg-us" -> <<"https://api.sbgenomics.com/v2">>
          [] p = "sbg-eu" -> <<"https://eu-api.sbgenomics.com/v2">>
          [] p = "biodata-catalyst" -> <<"https://api.sb.biodatacatalyst.nhlbi.nih.gov/v2">>
          [] p = "cavatica" -> <<"https://cavatica-api.sbgenomics.com/v2">>]]
\* The tokens the methods are called with: two plain ones, one that ends in
\* a blank and one that holds a lone '%'.
Tokens == {<<"t">>, <<"u">>, <<"t", " ">>, <<"%">>}
\* None or the empty string, which "if not token" treats alike.
NoToken == <<>>
\* The profile names: two known platforms, a custom name and configparser's
\* reserved DEFAULT.
ProfileNames == {"cgc", "sbg-us", "custom", "DEFAULT"}

\* configparser strips the blanks around a value when it reads it.
RECURSIVE Strip(_)
Strip(v) ==
  IF v = <<>> THEN v
  ELSE IF Head(v) = " " THEN Strip(Tail(v))
  ELSE IF v[Len(v)] = " " THEN Strip(SubSeq(v, 1, Len(v) - 1))
  ELSE v

\* The text of the credentials file: no file, text that configparser
\* rejects ("bad"), or sections of "option = value" lines ("ini"; no
\* section at all for an empty file).
EmptyConfig == [s \in {} |-> [o \in {} |-> <<>>]]
NoText == [kind |-> "absent", sections |-> EmptyConfig]
BadText == [kind |-> "bad", sections |-> EmptyConfig]
\* config.write(f): every section with its values as they were set.
ConfigWrite(config) == [kind |-> "ini", sections |-> config]
\* config.read_string(existing_content): values come back stripped.
ReadString(text) ==
  IF text.kind = "bad"
  THEN [raised |-> TRUE, config |-> EmptyConfig]
  ELSE [raised |-> FALSE,
        config |-> [s \in DOMAIN text.sections |->
                      [o \in DOMAIN text.sections[s] |-> Strip(text.sections[s][o])]]]
\* if not config.has_section(name): config.add_section(name). DEFAULT is
\* never a section and add_section refuses it with ValueError.
AddSection(config, name) ==
  IF name \in DOMAIN config
  THEN [raised |-> FALSE, config |-> config]
  ELSE IF name = "DEFAULT"
       THEN [raised |-> TRUE, config |-> config]
       ELSE [raised |-> FALSE,
             config |-> [s \in DOMAIN config \cup {name} |->
                           IF s = name THEN [o \in {} |-> <<>>] ELSE config[s]]]
\* config.set(section, option, value): the interpolation check refuses a
\* value with a lone '%'.
ConfigSet(config, section, option, value) ==
  IF \E i \in 1..Len(value) : value[i] = "%"
  THEN [raised |-> TRUE, config |-> config]
  ELSE [raised |-> FALSE,
        config |-> [config EXCEPT ![section] =
                      [o \in DOMAIN config[section] \cup {option} |->
                         IF o = option THEN value ELSE config[section][o]]]]

\* What the environment decides during _setup_sbpack_credentials: whether
\* mkdir and the read are refused, and whether the write is refused, leaves
\* the file empty, or leaves it cut off.
SbEnvs == [mkdir : {"ok", "denied"}, read : {"ok", "denied"},
           write : {"ok", "denied", "truncated", "partial"}]
SbAllOk == [mkdir |-> "ok", read |-> "ok", write |-> "ok"]

\* Mutant of ApiEndpoint: the endpoint of the profile_section template for
\* every profile.
ApiEndpointTemplate(profile_name) == DefaultEndpoint
\* self.platforms.get(profile_name, {}).get('api_endpoint', default)
ApiEndpoint(profile_name) ==
  IF profile_name \in DOMAIN PLATFORMS
  THEN PLATFORMS[profile_name].api_endpoint
  ELSE DefaultEndpoint

\* Mutant of ExistingConfig: the existing file is not read.
ExistingConfigIgnored(s, env) == [raised |-> FALSE, config |-> EmptyConfig]
\* The read of the existing file and config.read_string.
ExistingConfig(s, env) ==
  IF s.file.kind = "absent"
  THEN [raised |-> FALSE, config |-> EmptyConfig]
  ELSE IF env.read = "denied"
       THEN [raised |-> TRUE, config |-> EmptyConfig]
       ELSE ReadString(s.file)

\* with open(credentials_file, 'w') as f: config.write(f)
WriteCredentials(s, config, io) ==
  LET mode == IF s.file.kind = "absent" THEN "0o644" ELSE s.fileMode
  IN CASE io = "ok" ->
            [s |-> [s EXCEPT !.file = ConfigWrite(config), !.fileMode = mode],
             raised |-> FALSE]
       [] io = "denied" -> [s |-> s, raised |-> TRUE]
       [] io = "truncated" ->
            [s |-> [s EXCEPT !.file = ConfigWrite(EmptyConfig), !.fileMode = mode],
             raised |-> TRUE]
       [] io = "partial" ->
            [s |-> [s EXCEPT !.file = BadText, !.fileMode = mode], raised |-> TRUE]

\* The try body of _setup_sbpack_credentials. s holds the mode of
\* ~/.sevenbridges (dirMode) and the credentials file (file, fileMode).
SetupTry(s, token, profile_name, env) ==
  LET s1 == [s EXCEPT !.dirMode = IF s.dirMode = Absent THEN "0o700" ELSE s.dirMode]
      ex == ExistingConfig(s1, env)
      ad == AddSection(ex.config, profile_name)
      c1 == ConfigSet(ad.config, profile_name, "api_endpoint", ApiEndpoint(profile_name))
      c2 == ConfigSet(c1.config, profile_name, "auth_token", token)
      w == WriteCredentials(s1, c2.config, env.write)
  IN IF env.mkdir = "denied"
     THEN [s |-> s, raised |-> TRUE]
     ELSE IF ex.raised \/ ad.raised
          THEN [s |-> s1, raised |-> TRUE]
          ELSE IF c1.raised \/ c2.raised
               THEN [s |-> s1, raised |-> TRUE]
               ELSE IF w.raised
                    THEN w
                    ELSE [s |-> [w.s EXCEPT !.fileMode = "0o600"], raised |-> FALSE]

\* Mutant of _setup_sbpack_credentials: no try/except around the body.
SetupUnguarded(s, token, profile_name, env) ==
  LET t == SetupTry(s, token, profile_name, env)
  IN [s |-> t.s, ret |-> ~t.raised, raised |-> t.raised]
\* SBPackManager._setup_sbpack_credentials
_setup_sbpack_credentials(s, token, profile_name, env) ==
  LET t == SetupTry(s, token, profile_name, env)
  IN [s |-> t.s, ret |-> ~t.raised, raised |-> FALSE]

\* The characters of the platform identifiers.
Chars(name) ==
  CASE name = "cgc" -> <<"c", "g", "c">>
    [] name = "sbg-us" -> <<"s", "b", "g", "-", "u", "s">>
    [] name = "sbg-eu" -> <<"s", "b", "g", "-", "e", "u">>
    [] name = "biodata-catalyst" ->
         <<"b", "i", "o", "d", "a", "t", "a", "-", "c", "a", "t", "a", "l", "y", "s", "t">>
    [] name = "cavatica" -> <<"c", "a", "v", "a", "t", "i", "c", "a">>
    [] name = "custom" -> <<"c", "u", "s", "t", "o", "m">>
    [] OTHER -> <<>>
LowerCase ==
  <<"a", "b", "c", "d", "e", "f", "g", "h", "i", "j", "k", "l", "m",
    "n", "o", "p", "q", "r", "s", "t", "u", "v", "w", "x", "y", "z">>
UpperCase ==
  <<"A", "B", "C", "D", "E", "F", "G", "H", "I", "J", "K", "L", "M",
    "N", "O", "P", "Q", "R", "S", "T", "U", "V", "W", "X", "Y", "Z">>
\* str.upper
Upper(str) ==
  [i \in 1..Len(str) |->
     IF \E j \in 1..Len(LowerCase) : LowerCase[j] = str[i]
     THEN UpperCase[CHOOSE j \in 1..Len(LowerCase) : LowerCase[j] = str[i]]
     ELSE str[i]]
\* str.replace(old, new) for one-character strings
Replace(str, old, new) == [i \in 1..Len(str) |-> IF str[i] = old THEN new ELSE str[i]]
\* Mutant of EnvVarName: the '-' of the platform identifier is kept.
EnvVarNameDashed(platform) ==
  <<"S", "B", "_">> \o Upper(Chars(platform)) \o <<"_", "T", "O", "K", "E", "N">>
\* f"SB_{platform.upper().replace('-', '_')}_TOKEN"
EnvVarName(platform) ==
  <<"S", "B", "_">> \o Replace(Upper(Chars(platform)), "-", "_")
    \o <<"_", "T", "O", "K", "E", "N">>
\* os.environ.get(name): None (here NoToken, which is as falsy) if unset.
EnvironGet(environ, name) == IF name \in DOMAIN environ THEN environ[name] ELSE NoToken
\* os.environ without any token variable, and with the variable of every
\* platform set to the same token.
NoEnviron == [n \in {} |-> NoToken]
FullEnviron == [n \in {EnvVarName(p) : p \in DOMAIN PLATFORMS} |-> <<"t">>]

\* What the environment decides during deploy_to_cgc: whether sbpack is
\* installed, the workflow file exists and validates, what get_stored_token
\* and the SB_<PLATFORM>_TOKEN variable give, the outcomes of the credentials
\* setup, and whether the sbpack command succeeds.
DeployEnvs ==
  {e \in [available : BOOLEAN, exists : BOOLEAN, valid : BOOLEAN,
          stored : {NoToken, <<"u">>}, environ : {NoEnviron, FullEnviron},
          setup : SbEnvs, run : {"ok", "fail"}] :
     /\ (~e.available => e.exists) /\ (~e.exists => e.valid)
     /\ (~(e.available /\ e.exists /\ e.valid) =>
           /\ e.stored = NoToken /\ e.environ = NoEnviron
           /\ e.setup = SbAllOk /\ e.run = "ok")
     /\ (e.stored # NoToken => e.environ = NoEnviron)
     /\ (e.run = "fail" => e.setup = SbAllOk)}

\* SBPackManager.deploy_to_cgc. ran: the sbpack deployment command was run.
\* setup: what _setup_sbpack_credentials returned, if it was called.
\* non_interactive selects between two messages only and is left out.
deploy_to_cgc(s, token, platform, env) ==
  LET tok == IF token # NoToken THEN token
             ELSE IF env.stored # NoToken THEN env.stored
             ELSE EnvironGet(env.environ, EnvVarName(platform))
      su == _setup_sbpack_credentials(s, tok, platform, env.setup)
      no == [s |-> s, ret |-> FALSE, ran |-> FALSE, setup |-> "not called",
             token |-> tok, raised |-> FALSE]
  IN IF ~env.available \/ ~env.exists \/ ~env.valid THEN no
     ELSE IF platform \notin DOMAIN PLATFORMS THEN no
     ELSE IF tok = NoToken THEN no
     ELSE IF su.raised
          THEN [no EXCEPT !.s = su.s, !.raised = TRUE, !.setup = "raised"]
     ELSE IF ~su.ret
          THEN [no EXCEPT !.s = su.s, !.setup = "False"]
          ELSE [s |-> su.s, ret |-> env.run = "ok", ran |-> TRUE, setup |-> "True",
                token |-> tok, raised |-> FALSE]

\* What the environment decides during list_apps: what get_stored_token and
\* os.environ give, whether the query succeeds and the apps it yields.
ListEnvs ==
  {e \in [stored : {NoToken, <<"u">>}, environ : {NoEnviron, FullEnviron},
          query : {"ok", "raise"}, apps : {<<>>, <<"app">>}] :
     e.query = "raise" => e.apps = <<>>}

\* SBPackManager.list_apps. contacted: sbg.Api was built with the token and
\* queried. non_interactive selects between messages only and is left out.
list_apps(s, token, platform, env) ==
  LET tok == IF token # NoToken THEN token
             ELSE IF env.stored # NoToken THEN env.stored
             ELSE EnvironGet(env.environ, EnvVarName(platform))
      no == [s |-> s, ret |-> <<>>, contacted |-> FALSE, token |-> tok,
             raised |-> FALSE]
  IN IF platform \notin DOMAIN PLATFORMS THEN no
     ELSE IF tok = NoToken THEN no
     ELSE [no EXCEPT !.contacted = TRUE,
                     !.ret = IF env.query = "ok" THEN env.apps ELSE <<>>]

\* 'auth_token', the identity under which a platform's token is stored.
AuthToken == <<"a", "u", "t", "h", "_", "t", "o", "k", "e", "n">>
\* A secret of the credential store as the token string handed to sbpack.
TokenChars(secret) == <<secret>>
\* The environment of a CredentialManager call inside login_to_platform:
\* only the OS store is let fail.
KrEnv(kr) == [AllOk EXCEPT !.kr = kr]

\* What the user and the environment decide during login_to_platform:
\* use_stored answers the question of line 215; use_existing, credential and
\* store are the answers inside prompt_and_store; krGet, krPrompt and krStore
\* are the OS store's outcomes in the calls of lines 200/213, of lines 207-224
\* and of lines 250-252; test is the outcome of the connection test and setup
\* the outcomes of the credentials-file update. Inputs the path does not read
\* are held at one value.
LoginIdle ==
  [use_stored |-> "y", use_existing |-> "y", credential |-> "x", store |-> "n",
   krGet |-> "ok", krPrompt |-> "ok"]
LoginFailed == [test |-> "raise", krStore |-> "ok", setup |-> SbAllOk]
KrOutcomes(self) == IF self.KEYRING_AVAILABLE THEN {"ok", "raise"} ELSE {"ok"}
\* The answers read by prompt_and_store when its lookup finds (existing) or
\* does not find a credential.
PromptAnswers(existing, base) ==
  (IF existing THEN {base} ELSE {})
  \cup {[base EXCEPT !.use_existing = IF existing THEN "n" ELSE "y",
                     !.credential = c, !.store = st] :
          c \in Secrets, st \in {"y", "n"}}
PromptIns(from, service, base) ==
  UNION {PromptAnswers(Truthy(get_credential(from, service, AuthToken, KrEnv(kp)).ret),
                       [base EXCEPT !.krPrompt = kp]) :
         kp \in KrOutcomes(from)}
\* The inputs read after the lookup of line 200 or 213 has returned g.
LookedIns(g, service, non_interactive, base) ==
  IF non_interactive THEN {base}
  ELSE IF Truthy(g.ret)
  THEN {base} \cup PromptIns(g.self, service, [base EXCEPT !.use_stored = "n"])
  ELSE PromptIns(g.self, service, base)
AcquireIns(self, service, token, force_new, non_interactive) ==
  IF Truthy(token) THEN {LoginIdle}
  ELSE IF ~non_interactive /\ force_new THEN PromptIns(self, service, LoginIdle)
  ELSE UNION {LookedIns(get_credential(self, service, AuthToken, KrEnv(kg)),
                        service, non_interactive, [LoginIdle EXCEPT !.krGet = kg]) :
              kg \in KrOutcomes(self)}
StoreIns(self) ==
  [test : {"ok"}, krStore : KrOutcomes(self),
   setup : {SbAllOk, [SbAllOk EXCEPT !.write = "denied"]}]
  \cup {LoginFailed}
LoginIns(self, platform, token, force_new, non_interactive) ==
  IF platform \notin DOMAIN PLATFORMS
  THEN {<<LoginIdle, LoginFailed>>}
  ELSE AcquireIns(self, Chars(platform), token, force_new, non_interactive)
       \X StoreIns(self)

\* The token that prompt_and_store returned (r). out: "go" on to the
\* connection test, "False" returned, or "raised". prompted: input, getpass
\* or prompt_and_store was called.
Prompted(r) ==
  [self |-> r.self, token |-> r.ret, out |-> IF r.raised THEN "raised" ELSE "go",
   prompted |-> TRUE]
\* Lines 198-227 after the lookup of line 200 or 213 has returned g.
AcquireLooked(g, service, non_interactive, in) ==
  IF non_interactive
  THEN [self |-> g.self, token |-> g.ret,
        out |-> IF Truthy(g.ret) THEN "go" ELSE "False", prompted |-> FALSE]
  ELSE IF Truthy(g.ret) /\ in.use_stored # "n"
  THEN [self |-> g.self, token |-> g.ret, out |-> "go", prompted |-> TRUE]
  ELSE Prompted(prompt_and_store(g.self, service, AuthToken, in.use_existing,
                                 in.credential, in.store, KrEnv(in.krPrompt),
                                 KrEnv(in.krPrompt)))
\* Lines 196-227 of login_to_platform: the token to test.
AcquireToken(self, service, token, force_new, non_interactive, in) ==
  IF Truthy(token)
  THEN [self |-> self, token |-> token, out |-> "go", prompted |-> FALSE]
  ELSE IF ~non_interactive /\ force_new
  THEN Prompted(prompt_and_store(self, service, AuthToken, in.use_existing,
                                 in.credential, in.store, KrEnv(in.krPrompt),
                                 KrEnv(in.krPrompt)))
  ELSE AcquireLooked(get_credential(self, service, AuthToken, KrEnv(in.krGet)),
                     service, non_interactive, in)

\* Lines 252-261: set_credential has returned st; an exception of it is
\* caught with those of the connection test. What
\* _setup_sbpack_credentials returns is not looked at.
Stored252(st, s, platform, token, in) ==
  IF st.raised
  THEN [self |-> st.self, s |-> s, ret |-> FALSE]
  ELSE [self |-> st.self,
        s |-> _setup_sbpack_credentials(s, TokenChars(token), platform, in.setup).s,
        ret |-> TRUE]
\* Lines 250-261: the lookup of line 250 has returned g.
StoreIfNew(g, s, platform, token, in) ==
  IF ~Truthy(g.ret) \/ g.ret # token
  THEN Stored252(set_credential(g.self, Chars(platform), AuthToken, token,
                                KrEnv(in.krStore)),
                 s, platform, token, in)
  ELSE [self |-> g.self, s |-> s, ret |-> TRUE]
\* Lines 229-265 of login_to_platform: the connection test and, if it
\* succeeds, the storing of a token that is not the stored one.
TestAndStore(self, s, platform, token, in) ==
  IF in.test = "raise"
  THEN [self |-> self, s |-> s, ret |-> FALSE]
  ELSE StoreIfNew(get_credential(self, Chars(platform), AuthToken, KrEnv(in.krStore)),
                  s, platform, token, in)

\* The result of login_to_platform from the acquired token (a) and the
\* outcome of the test and the storing (t).
LoginResult(a, t) ==
  [self |-> t.self, s |-> t.s, ret |-> t.ret, raised |-> FALSE,
   prompted |-> a.prompted, contacted |-> TRUE, token |-> a.token]
\* Lines 196-265, the token acquired.
LoginAcquired(a, s, platform, in) ==
  IF a.out # "go"
  THEN [self |-> a.self, s |-> s, ret |-> FALSE, raised |-> a.out = "raised",
        prompted |-> a.prompted, contacted |-> FALSE, token |-> a.token]
  ELSE LoginResult(a, TestAndStore(a.self, s, platform, a.token, in[2]))

\* Mutant of login_to_platform: the non-interactive branch is missing, the
\* token is acquired as in interactive mode.
LoginAlwaysInteractive(self, s, platform, token, force_new, non_interactive, in) ==
  IF platform \notin DOMAIN PLATFORMS
  THEN [self |-> self, s |-> s, ret |-> FALSE, raised |-> FALSE,
        prompted |-> FALSE, contacted |-> FALSE, token |-> token]
  ELSE LoginAcquired(AcquireToken(self, Chars(platform), token, force_new, FALSE,
                                  in[1]),
                     s, platform, in)

\* SBPackManager.login_to_platform. in: a pair of LoginIns. contacted: the
\* connection test was made. token: the token acquired.
login_to_platform(self, s, platform, token, force_new, non_interactive, in) ==
  IF platform \notin DOMAIN PLATFORMS
  THEN [self |-> self, s |-> s, ret |-> FALSE, raised |-> FALSE,
        prompted |-> FALSE, contacted |-> FALSE, token |-> token]
  ELSE LoginAcquired(AcquireToken(self, Chars(platform), token, force_new,
                                  non_interactive, in[1]),
                     s, platform, in)

\* The record of a completed call of SBPackManager. clean: the environment
\* refused nothing during the call.
SbCall(op, token, profile_name, ret, raised, clean, ran, setup) ==
  [op |-> op, token |-> token, profile_name |-> profile_name, ret |-> ret,
   raised |-> raised, clean |-> clean, ran |-> ran, setup |-> setup]
\* No ~/.sevenbridges yet and no call made.
SbStart ==
  [dirMode |-> Absent, file |-> NoText, fileMode |-> "0o600",
   last |-> SbCall("none", NoToken, "", FALSE, FALSE, TRUE, FALSE, "not called")]

\* --------------------------------- two processes in set_credential at once
\* Both processes are file-selected and find the key file, which holds
\* RaceKey. A Fernet token is as long as its plaintext requires: the blob file
\* is a sequence of blocks, one block for the token's header and one for each
\* credential of the object. by: the process that encrypted, for the token's
\* random IV.
Procs == {"p", "q"}
RaceKey == KeyBytes(1)
RaceToken(by, creds) == [by |-> by, enc |-> Encrypt(RaceKey, JsonDumps(creds))]
TokenLen(token) == Cardinality(DOMAIN token.enc.data.map) + 1
TokenBlocks(token) == [i \in 1..TokenLen(token) |-> [token |-> token, i |-> i]]
\* file.read(), f.decrypt, json.loads: the bytes decrypt when they are the
\* blocks of one token, no more and no less.
RaceRead(file) ==
  IF file # <<>> /\ file = TokenBlocks(file[1].token)
  THEN LET dec == Decrypt(RaceKey, file[1].token.enc)
       IN [raised |-> dec.raised, creds |-> dec.data.map]
  ELSE [raised |-> TRUE, creds |-> EmptyDict]
\* A write of blocks at offset 0 of a file: what the file held beyond the
\* written blocks stays.
WriteAt0(file, blocks) ==
  blocks \o (IF Len(file) > Len(blocks)
             THEN SubSeq(file, Len(blocks) + 1, Len(file)) ELSE <<>>)

\* No process has started; no blob file.
RaceStart ==
  [file |-> <<>>, exists |-> FALSE, mode |-> "0o600",
   pc |-> [p \in Procs |-> "start"],
   args |-> [p \in Procs |-> [service |-> nA, username |-> nB, password |-> "x"]],
   token |-> [p \in Procs |-> RaceToken(p, EmptyDict)],
   wrote |-> "none"]

\* key = self._get_or_create_key(); f = Fernet(key)
RaceGetKey(p) ==
  /\ race.pc[p] = "start"
  /\ race' = [race EXCEPT !.pc[p] = "load"]
  /\ UNCHANGED <<credVars, sb, ghcr, first>>

\* The load of the existing credentials, creds[full_key] = password and
\* f.encrypt(json.dumps(creds).encode()).
RaceLoad(p) ==
  /\ race.pc[p] = "load"
  /\ LET ld == IF race.exists THEN RaceRead(race.file)
               ELSE [raised |-> FALSE, creds |-> EmptyDict]
         creds == IF ld.raised THEN EmptyDict ELSE ld.creds
         a == race.args[p]
     IN race' = [race EXCEPT
                   !.token[p] = RaceToken(p, DictSet(creds,
                                                      FullKey(a.service, a.username),
                                                      a.password)),
                   !.pc[p] = "open"]
  /\ UNCHANGED <<credVars, sb, ghcr, first>>

\* open(self.creds_file, 'wb'): creates the file or cuts it to length 0.
RaceOpen(p) ==
  /\ race.pc[p] = "open"
  /\ race' = [race EXCEPT !.file = <<>>, !.exists = TRUE,
                          !.mode = IF race.exists THEN race.mode ELSE "0o644",
                          !.pc[p] = "write"]
  /\ UNCHANGED <<credVars, sb, ghcr, first>>

\* file.write(encrypted_data) and the close that ends the with block: the
\* token goes to the file at the offset 0 of this process's descriptor.
RaceWrite(p) ==
  /\ race.pc[p] = "write"
  /\ race' = [race EXCEPT !.file = WriteAt0(race.file, TokenBlocks(race.token[p])),
                          !.wrote = p,
                          !.pc[p] = "chmod"]
  /\ UNCHANGED <<credVars, sb, ghcr, first>>

\* os.chmod(self.creds_file, 0o600) and the return.
RaceChmod(p) ==
  /\ race.pc[p] = "chmod"
  /\ race' = [race EXCEPT !.mode = "0o600", !.pc[p] = "done"]
  /\ UNCHANGED <<credVars, sb, ghcr, first>>

\* ------------------------------------------------------------ GHCRManager
\* The GitHub user names of the model.
GhUsers == {"octo", "hub"}
\* The record of a completed call of GHCRManager. code: the outcome of the
\* docker login or docker logout that was run, "none" if none was. pushed:
\* docker push was run. loginCalled: push called login.
GhCall(op, ret, raised, code, pushed, loginCalled) ==
  [op |-> op, ret |-> ret, raised |-> raised, code |-> code, pushed |-> pushed,
   loginCalled |-> loginCalled]
\* GHCRManager.__init__ with no username; stored is what the instance's
\* CredentialManager holds under 'ghcr:<username>', loggedIn tells whether a
\* docker login of this instance has exited with 0 and no docker logout of
\* it has succeeded since.
GhcrStart ==
  [username |-> None, _authenticated |-> FALSE, stored |-> EmptyDict,
   loggedIn |-> FALSE, last |-> GhCall("none", FALSE, FALSE, "none", FALSE, FALSE)]
\* What the user and the environment decide during a call: the user name
\* found in the environment and the one typed, GITHUB_TOKEN and the answer to
\* the question about it, the token typed and the answer to the storing
\* question of prompt_and_store, whether prompt_and_store raises, and the
\* outcomes of docker login, docker logout and docker push ("0"/"1" exit
\* codes of docker login; "fail" a CalledProcessError; "raise" another
\* exception, such as docker missing).
GhEnvs ==
  [envUser : {None, "octo"}, typedUser : {"hub"}, GITHUB_TOKEN : {None, "x"},
   use_codespaces : {"y", "n"}, credential : {"y"}, store : {"y", "n"},
   prompt : {"ok", "raise"}, login : {"0", "1", "raise"},
   logout : {"ok", "fail", "raise"}, push : {"ok", "fail", "raise"}]

\* GHCRManager._get_username
_get_username(g, env) ==
  IF Truthy(g.username)
  THEN g
  ELSE [g EXCEPT !.username = IF Truthy(env.envUser) THEN env.envUser
                              ELSE env.typedUser]

\* cred_manager.prompt_and_store("ghcr", username, ...) when no credential
\* is stored under the name: the typed token, stored unless declined.
GhPrompt(g, env) ==
  IF env.prompt = "raise"
  THEN [g |-> g, token |-> None, raised |-> TRUE]
  ELSE [g |-> IF env.store # "n"
              THEN [g EXCEPT !.stored = DictSet(g.stored, g.username, env.credential)]
              ELSE g,
        token |-> env.credential, raised |-> FALSE]

\* Lines 59-91 of login: the token to log in with.
GhToken(g, token, env) ==
  IF Truthy(token) THEN [g |-> g, token |-> token, raised |-> FALSE]
  ELSE IF Truthy(DictGet(g.stored, g.username))
  THEN [g |-> g, token |-> DictGet(g.stored, g.username), raised |-> FALSE]
  ELSE IF Truthy(env.GITHUB_TOKEN) /\ env.use_codespaces = "y"
  THEN [g |-> g, token |-> env.GITHUB_TOKEN, raised |-> FALSE]
  ELSE GhPrompt(g, env)

\* Lines 94-112 of login, the token found (t).
GhDockerLogin(t, env) ==
  IF t.raised
  THEN [g |-> t.g, ret |-> FALSE, raised |-> TRUE, code |-> "none"]
  ELSE IF env.login = "raise"
  THEN [g |-> t.g, ret |-> FALSE, raised |-> TRUE, code |-> "raise"]
  ELSE IF env.login = "0"
  THEN [g |-> [t.g EXCEPT !._authenticated = TRUE], ret |-> TRUE, raised |-> FALSE,
        code |-> "0"]
  ELSE [g |-> t.g, ret |-> FALSE, raised |-> FALSE, code |-> env.login]

\* Mutant of login: the exit code of docker login is not looked at.
LoginIgnoringExitCode(g, token, env) ==
  [GhDockerLogin(GhToken(_get_username(g, env), token, env), env)
     EXCEPT !.g._authenticated = TRUE]

\* GHCRManager.login
login(g, token, env) ==
  GhDockerLogin(GhToken(_get_username(g, env), token, env), env)

\* GHCRManager.logout
logout(g, env) ==
  IF env.logout = "ok"
  THEN [g |-> [g EXCEPT !._authenticated = FALSE], ret |-> TRUE, raised |-> FALSE,
        code |-> "ok"]
  ELSE [g |-> g, ret |-> FALSE, raised |-> env.logout = "raise",
        code |-> env.logout]

\* Lines 172-188 of push, login (l) called or not.
GhDockerPush(g, loginCalled, code, env) ==
  [g |-> _get_username(g, env), ret |-> env.push = "ok",
   raised |-> env.push = "raise", code |-> code, pushed |-> TRUE,
   loginCalled |-> loginCalled]
\* Lines 169-188 of push, login having returned l.
GhPushAfterLogin(l, env) ==
  IF l.raised \/ ~l.ret
  THEN [g |-> l.g, ret |-> FALSE, raised |-> l.raised, code |-> l.code,
        pushed |-> FALSE, loginCalled |-> TRUE]
  ELSE GhDockerPush(l.g, TRUE, l.code, env)

\* GHCRManager.push
push(g, env) ==
  IF ~g._authenticated
  THEN GhPushAfterLogin(login(g, None, env), env)
  ELSE GhDockerPush(g, FALSE, "none", env)

\* ------------------------- two processes in their first set_credential
\* Each process is file-selected, finds the configuration directory empty and
\* runs the file branch of set_credential, with _get_or_create_key inside;
\* Fernet.generate_key gives each process a key of its own. pc: where the
\* process stands; key and creds: its local variables.
FirstKey(p) == IF p = "p" THEN KeyBytes(1) ELSE KeyBytes(2)
FirstStart ==
  [keyFile |-> NoKey, blob |-> NoFile,
   pc |-> [p \in Procs |-> "start"],
   key |-> [p \in Procs |-> NoKey],
   creds |-> [p \in Procs |-> EmptyDict],
   args |-> [p \in Procs |-> [service |-> nA, username |-> nB, password |-> "x"]]]

\* key_file.exists() (line 39)
FirstExists(f, p) ==
  [f EXCEPT !.pc[p] = IF f.keyFile = NoKey THEN "generate" ELSE "read"]
\* Lines 40-41 and 104: the key file is read, as it is at this moment, and
\* Fernet(key) raises on bytes that are no key.
FirstRead(f, p) ==
  [f EXCEPT !.key[p] = f.keyFile,
            !.pc[p] = IF FernetValid(f.keyFile) THEN "load" ELSE "raised"]
\* Lines 43-44: a key is generated and the key file opened with 'wb', which
\* creates it, or truncates it, before anything is written.
FirstGenerate(f, p) ==
  [f EXCEPT !.key[p] = FirstKey(p), !.keyFile = BadKey, !.pc[p] = "writekey"]
\* Lines 45-48 and 104
FirstWriteKey(f, p) ==
  [f EXCEPT !.keyFile = f.key[p], !.pc[p] = "load"]
\* Lines 107-118: the blob is loaded under the process's key, replaced by {}
\* if that fails, and the credential is put in.
FirstLoad(f, p) ==
  LET d == Decrypt(f.key[p], f.blob)
      old == IF f.blob.kind = "absent" \/ d.raised \/ d.data.kind # "obj"
             THEN EmptyDict ELSE d.data.map
  IN [f EXCEPT !.creds[p] = DictSet(old, FullKey(f.args[p].service, f.args[p].username),
                                    f.args[p].password),
               !.pc[p] = "open"]
\* Line 122: open(self.creds_file, 'wb')
FirstOpen(f, p) == [f EXCEPT !.blob = GarbageFile, !.pc[p] = "write"]
\* Lines 121 and 123-126
FirstWrite(f, p) ==
  [f EXCEPT !.blob = Encrypt(f.key[p], JsonDumps(f.creds[p])), !.pc[p] = "done"]

\* ----------------------------------------------------------------- actions
\* The record of a completed call. raised: an exception left the method.
\* clean: the environment let no OS-store call and no file write of the call
\* fail. again: the call repeats the call before it, which was clean.
Call(op, service, username, password, raised, clean, again) ==
  [op |-> op, service |-> service, username |-> username, password |-> password,
   raised |-> raised, clean |-> clean, again |-> again]
Plain(op) == Call(op, <<>>, <<>>, None, FALSE, TRUE, FALSE)

Apply(self) ==
  /\ KEYRING_AVAILABLE' = self.KEYRING_AVAILABLE
  /\ keyring' = self.keyring
  /\ dirMode' = self.dirMode
  /\ keyFile' = self.keyFile
  /\ generated' = self.generated
  /\ keyMode' = self.keyMode
  /\ credsFile' = self.credsFile
  /\ credsMode' = self.credsMode
  /\ UNCHANGED <<sb, race, ghcr, first>>

\* The composite keys the blob holds under the key it was encrypted with.
Stored(self) ==
  IF self.credsFile.kind = "enc" /\ self.credsFile.data.kind = "obj"
  THEN DOMAIN self.credsFile.data.map
  ELSE {}
WithinBounds(self) ==
  /\ Cardinality(DOMAIN self.keyring) + Cardinality(Stored(self)) <= MaxStored
  /\ self.generated <= MaxKeys

\* The configuration directory before the first instance: missing, or left
\* by an earlier run or by the user, with owner-only or with default modes,
\* with or without a key file, and with a blob file that is missing or does
\* not hold an encrypted JSON object.
InitFiles ==
  {f \in [dirMode : {Absent, "0o700", "0o755"},
          keyFile : {NoKey, KeyBytes(1)},
          credsFile : {NoFile, GarbageFile, Encrypt(KeyBytes(1), TextData),
                       Encrypt(KeyBytes(1), NonObjData)}] :
     /\ f.dirMode = Absent => f.keyFile = NoKey /\ f.credsFile = NoFile
     /\ f.credsFile.kind = "enc" => f.credsFile.key = f.keyFile}

Init ==
  /\ constructed = FALSE
  /\ KEYRING_AVAILABLE = TRUE
  /\ keyring = EmptyDict
  /\ \E f \in InitFiles :
       /\ dirMode = f.dirMode
       /\ keyFile = f.keyFile
       /\ generated = IF f.keyFile = NoKey THEN 0 ELSE 1
       /\ keyMode = IF f.dirMode = "0o755" THEN "0o644" ELSE "0o600"
       /\ credsFile = f.credsFile
       /\ credsMode = IF f.dirMode = "0o755" THEN "0o644" ELSE "0o600"
  /\ last = Plain("none")
  /\ sb = SbStart
  /\ race = RaceStart
  /\ ghcr = GhcrStart
  /\ first = FirstStart

Construct ==
  /\ \E kr \in {"ok", "raise"} :
       /\ Apply(CredentialManagerInit(Self, [AllOk EXCEPT !.kr = kr]))
       /\ last' = Call("init", <<>>, <<>>, None, FALSE, kr = "ok", FALSE)
  /\ constructed' = TRUE

GetKey ==
  /\ constructed
  /\ \E env \in {e \in EnvsFor(Self) : e.kr = "ok" /\ e.ioCreds = "ok"} :
       \E r \in {_get_or_create_key(Self, env)} :
          /\ WithinBounds(r.self)
          /\ Apply(r.self)
  /\ last' = Plain("_get_or_create_key")
  /\ UNCHANGED constructed

Get ==
  /\ constructed
  /\ \E p \in Pairs, env \in {e \in EnvsFor(Self) : e.ioCreds = "ok"} :
       \E r \in {get_credential(Self, p[1], p[2], env)} :
          /\ WithinBounds(r.self)
          /\ Apply(r.self)
  /\ last' = Plain("get")
  /\ UNCHANGED constructed

Set ==
  /\ constructed
  /\ \E p \in Pairs, password \in Secrets, env \in EnvsFor(Self) :
       \E r \in {set_credential(Self, p[1], p[2], password, env)} :
          /\ WithinBounds(r.self)
          /\ Apply(r.self)
          /\ last' = Call("set", p[1], p[2], password, r.raised, env = AllOk, FALSE)
  /\ UNCHANGED constructed

Delete ==
  /\ constructed
  /\ \E p \in Pairs, env \in EnvsFor(Self) :
       \E r \in {delete_credential(Self, p[1], p[2], env)} :
          /\ WithinBounds(r.self)
          /\ Apply(r.self)
          /\ last' = Call("delete", p[1], p[2], None, r.raised, env = AllOk,
                           /\ last.op = "delete" /\ last.clean
                           /\ last.service = p[1] /\ last.username = p[2])
  /\ UNCHANGED constructed

List ==
  /\ constructed
  /\ \E env \in {e \in EnvsFor(Self) : e.kr = "ok" /\ e.ioCreds = "ok"} :
       \E r \in {list_credentials(Self, env)} :
          /\ WithinBounds(r.self)
          /\ Apply(r.self)
  /\ last' = Plain("list")
  /\ UNCHANGED constructed

\* Inside prompt_and_store only the OS-store calls are let fail; failing
\* file writes are exercised through set_credential itself.
PromptEnvs(self) == {e \in EnvsFor(self) : e.ioKey = "ok" /\ e.ioCreds = "ok"}

Prompt ==
  /\ constructed
  /\ \E p \in Pairs, envGet \in PromptEnvs(Self) :
       \E g \in {get_credential(Self, p[1], p[2], envGet)} :
         \E use_existing \in IF Truthy(g.ret) THEN {"y", "n"} ELSE {"y"},
            credential \in Secrets, store \in {"y", "n"} :
           \E envSet \in IF store = "n" THEN {AllOk} ELSE PromptEnvs(g.self) :
             \E r \in {prompt_and_store(Self, p[1], p[2], use_existing, credential,
                                        store, envGet, envSet)} :
                /\ WithinBounds(r.self)
                /\ Apply(r.self)
  /\ last' = Plain("prompt_and_store")
  /\ UNCHANGED constructed

Next == Construct \/ GetKey \/ Get \/ Set \/ Delete \/ List \/ Prompt

Spec == Init /\ [][Next]_vars

\* The instance's first construction finds no configuration directory.
InitEmpty == Init /\ dirMode = Absent

SpecEmpty == InitEmpty /\ [][Next]_vars

\* A configuration directory whose blob was written by another tool or
\* edited by hand: next to at most one key made by set_credential the JSON
\* object holds a member whose name has no ':'.
ForeignKey == <<"a">>
ForeignMaps ==
  {[k \in {ForeignKey} \cup own |-> "x"] :
     own \in {{}} \cup {{FullKey(p[1], p[2])} : p \in Pairs}}
InitForeign ==
  /\ constructed = FALSE
  /\ KEYRING_AVAILABLE = TRUE
  /\ keyring = EmptyDict
  /\ dirMode = "0o700"
  /\ keyFile = KeyBytes(1)
  /\ generated = 1
  /\ keyMode = "0o600"
  /\ \E m \in ForeignMaps : credsFile = Encrypt(KeyBytes(1), JsonDumps(m))
  /\ credsMode = "0o600"
  /\ last = Plain("none")
  /\ sb = SbStart
  /\ race = RaceStart
  /\ ghcr = GhcrStart
  /\ first = FirstStart

SpecForeign == InitForeign /\ [][Next]_vars

\* ------------------------------------------------- sbpack: the actions
\* No CredentialManager call is made in the steps of SpecSb; what
\* get_stored_token returns is an input of deploy_to_cgc.
CredIdle ==
  /\ constructed = FALSE
  /\ KEYRING_AVAILABLE = TRUE
  /\ keyring = EmptyDict
  /\ dirMode = Absent
  /\ keyFile = NoKey
  /\ generated = 0
  /\ keyMode = "0o600"
  /\ credsFile = NoFile
  /\ credsMode = "0o600"
  /\ last = Plain("none")

\* ~/.sevenbridges before the first call: missing, or there with no
\* credentials file, an empty one, one that configparser rejects, or one that
\* holds a profile written by hand.
InitSbFiles ==
  {f \in [dirMode : {Absent, "0o700"},
          file : {NoText, BadText, ConfigWrite(EmptyConfig),
                  ConfigWrite([s \in {"sbg-us"} |->
                                 [o \in {"api_endpoint", "auth_token"} |->
                                    IF o = "api_endpoint"
                                    THEN PLATFORMS["sbg-us"].api_endpoint
                                    ELSE <<" ", "u">>]]),
                  ConfigWrite([s \in {"cgc"} |-> [o \in {"auth_token"} |-> <<"u">>]])}] :
     f.dirMode = Absent => f.file = NoText}

InitSb ==
  /\ CredIdle
  /\ \E f \in InitSbFiles :
       sb = [SbStart EXCEPT !.dirMode = f.dirMode, !.file = f.file,
                            !.fileMode = IF f.file = NoText THEN "0o600" ELSE "0o644"]
  /\ race = RaceStart
  /\ ghcr = GhcrStart
  /\ first = FirstStart

\* The outcomes that can matter in the current state.
SbEnvsFor(s) ==
  {e \in SbEnvs : /\ (s.file.kind = "absent" => e.read = "ok")
                  /\ (e.mkdir = "denied" => e.read = "ok" /\ e.write = "ok")
                  /\ (e.read = "denied" => e.write = "ok")}

Setup ==
  /\ \E token \in Tokens, profile_name \in ProfileNames, env \in SbEnvsFor(sb) :
       \E r \in {_setup_sbpack_credentials(sb, token, profile_name, env)} :
         sb' = [r.s EXCEPT !.last = SbCall("setup", token, profile_name, r.ret,
                                            r.raised, env = SbAllOk, FALSE,
                                            "not called")]
  /\ UNCHANGED <<credVars, race, ghcr, first>>

Deploy ==
  /\ \E token \in {NoToken, <<"t">>}, platform \in {"cgc", "sbg-us", "custom"},
        env \in {e \in DeployEnvs : e.setup \in SbEnvsFor(sb)} :
       \E r \in {deploy_to_cgc(sb, token, platform, env)} :
         sb' = [r.s EXCEPT !.last = SbCall("deploy", r.token, platform, r.ret,
                                            r.raised, env.setup = SbAllOk, r.ran,
                                            r.setup)]
  /\ UNCHANGED <<credVars, race, ghcr, first>>

\* ret records whether the list is non-empty, ran whether the platform was
\* contacted.
ListApps ==
  /\ \E token \in {NoToken, <<"a">>}, platform \in {"cgc", "sbg-us", "custom"},
        env \in ListEnvs :
       \E r \in {list_apps(sb, token, platform, env)} :
         sb' = [r.s EXCEPT !.last = SbCall("list_apps", r.token, platform,
                                            r.ret # <<>>, r.raised,
                                            env.query = "ok", r.contacted,
                                            "not called")]
  /\ UNCHANGED <<credVars, race, ghcr, first>>

NextSb == Setup \/ Deploy \/ ListApps

SpecSb == InitSb /\ [][NextSb]_vars

\* ----------------------------------------------- sbpack: login_to_platform
\* The record of a completed login_to_platform call: the SbCall fields, ran
\* telling whether the connection test was made, and whether the call was
\* non-interactive and whether it prompted.
LoginCall(r, platform, non_interactive) ==
  [op |-> "login", token |-> IF Truthy(r.token) THEN TokenChars(r.token) ELSE NoToken,
   profile_name |-> platform, ret |-> r.ret, raised |-> r.raised, clean |-> TRUE,
   ran |-> r.contacted, setup |-> "not called",
   non_interactive |-> non_interactive, prompted |-> r.prompted]

Login ==
  /\ constructed
  /\ \E platform \in {"cgc", "custom"}, token \in {None, "x"},
        force_new \in BOOLEAN, non_interactive \in BOOLEAN :
       \E in \in LoginIns(Self, platform, token, force_new, non_interactive) :
         \E r \in {login_to_platform(Self, sb, platform, token, force_new,
                                     non_interactive, in)} :
           /\ WithinBounds(r.self)
           /\ KEYRING_AVAILABLE' = r.self.KEYRING_AVAILABLE
           /\ keyring' = r.self.keyring
           /\ dirMode' = r.self.dirMode
           /\ keyFile' = r.self.keyFile
           /\ generated' = r.self.generated
           /\ keyMode' = r.self.keyMode
           /\ credsFile' = r.self.credsFile
           /\ credsMode' = r.self.credsMode
           /\ sb' = [r.s EXCEPT !.last =
                       LoginCall(r, platform, non_interactive)]
  /\ last' = Plain("login")
  /\ UNCHANGED <<constructed, race, ghcr, first>>

\* SBPackManager.__init__ constructs the CredentialManager; the
\* configuration directory is as any earlier run may have left it.
NextLogin == Construct \/ Login

SpecLogin == Init /\ [][NextLogin]_vars

\* ------------------------------------------ the two processes: the actions
\* The blob file before the two calls: none, or the blob of an earlier
\* set_credential; the calls store different secrets under the same or under
\* different names.
InitRace ==
  /\ CredIdle
  /\ sb = SbStart
  /\ ghcr = GhcrStart
  /\ first = FirstStart
  /\ \E before \in {EmptyDict, DictSet(EmptyDict, FullKey(nB, nA), "y")},
        pairP \in {<<nA, nB>>, <<nB, nA>>}, pairQ \in {<<nA, nB>>, <<nB, nA>>},
        secretP \in Secrets, secretQ \in Secrets :
       race = [RaceStart EXCEPT
                 !.file = IF before = EmptyDict THEN <<>>
                          ELSE TokenBlocks(RaceToken("none", before)),
                 !.exists = before # EmptyDict,
                 !.args = [p \in Procs |->
                             IF p = "p"
                             THEN [service |-> pairP[1], username |-> pairP[2],
                                   password |-> secretP]
                             ELSE [service |-> pairQ[1], username |-> pairQ[2],
                                   password |-> secretQ]]]

NextRace ==
  \E p \in Procs :
    RaceGetKey(p) \/ RaceLoad(p) \/ RaceOpen(p) \/ RaceWrite(p) \/ RaceChmod(p)

SpecRace == InitRace /\ [][NextRace]_vars

\* ------------------------------------------------ GHCRManager: the actions
\* The outcomes that can matter in the current state.
GhEnvsFor(g, ops) ==
  {e \in GhEnvs :
     /\ (Truthy(g.username) => e.envUser = None)
     /\ ("login" \notin ops => /\ e.GITHUB_TOKEN = None /\ e.use_codespaces = "n"
                               /\ e.store = "n" /\ e.prompt = "ok" /\ e.login = "0")
     /\ (e.GITHUB_TOKEN = None => e.use_codespaces = "n")
     /\ (e.prompt = "raise" => e.store = "n" /\ e.login = "0")
     /\ ("logout" \notin ops => e.logout = "ok")
     /\ ("push" \notin ops => e.push = "ok")
     /\ (e.login # "0" => e.push = "ok")}

\* GHCRManager(username) for a user who may have stored a token earlier.
InitGhcr ==
  /\ CredIdle
  /\ sb = SbStart
  /\ race = RaceStart
  /\ first = FirstStart
  /\ \E username \in {None} \cup GhUsers, have \in SUBSET GhUsers :
       ghcr = [GhcrStart EXCEPT !.username = username,
                                !.stored = [u \in have |-> "x"]]

GhLogin ==
  /\ \E token \in {None, "x"}, env \in GhEnvsFor(ghcr, {"login"}) :
       \E r \in {login(ghcr, token, env)} :
         ghcr' = [r.g EXCEPT
                    !.loggedIn = IF r.code = "0" THEN TRUE ELSE @,
                    !.last = GhCall("login", r.ret, r.raised, r.code, FALSE, FALSE)]
  /\ UNCHANGED <<credVars, sb, race, first>>

GhLogout ==
  /\ \E env \in GhEnvsFor(ghcr, {"logout"}) :
       \E r \in {logout(ghcr, env)} :
         ghcr' = [r.g EXCEPT
                    !.loggedIn = IF r.code = "ok" THEN FALSE ELSE @,
                    !.last = GhCall("logout", r.ret, r.raised, r.code, FALSE, FALSE)]
  /\ UNCHANGED <<credVars, sb, race, first>>

GhPush ==
  /\ \E env \in GhEnvsFor(ghcr, IF ghcr._authenticated THEN {"push"}
                                ELSE {"login", "push"}) :
       \E r \in {push(ghcr, env)} :
         ghcr' = [r.g EXCEPT
                    !.loggedIn = IF r.code = "0" THEN TRUE ELSE @,
                    !.last = GhCall("push", r.ret, r.raised, r.code, r.pushed,
                                    r.loginCalled)]
  /\ UNCHANGED <<credVars, sb, race, first>>

NextGhcr == GhLogin \/ GhLogout \/ GhPush

SpecGhcr == InitGhcr /\ [][NextGhcr]_vars

\* ------------------------------------- the first set_credential: the actions
InitFirst ==
  /\ CredIdle
  /\ sb = SbStart
  /\ race = RaceStart
  /\ ghcr = GhcrStart
  /\ \E pairP \in {<<nA, nB>>, <<nB, nA>>}, pairQ \in {<<nA, nB>>, <<nB, nA>>},
        secretP \in Secrets, secretQ \in Secrets :
       first = [FirstStart EXCEPT
                  !.args = [p \in Procs |->
                              IF p = "p"
                              THEN [service |-> pairP[1], username |-> pairP[2],
                                    password |-> secretP]
                              ELSE [service |-> pairQ[1], username |-> pairQ[2],
                                    password |-> secretQ]]]

FirstStep(p) ==
  /\ first.pc[p] \notin {"done", "raised"}
  /\ first' = CASE first.pc[p] = "start" -> FirstExists(first, p)
                [] first.pc[p] = "read" -> FirstRead(first, p)
                [] first.pc[p] = "generate" -> FirstGenerate(first, p)
                [] first.pc[p] = "writekey" -> FirstWriteKey(first, p)
                [] first.pc[p] = "load" -> FirstLoad(first, p)
                [] first.pc[p] = "open" -> FirstOpen(first, p)
                [] first.pc[p] = "write" -> FirstWrite(first, p)
  /\ UNCHANGED <<credVars, sb, race, ghcr>>

NextFirst == \E p \in Procs : FirstStep(p)

SpecFirstUse == InitFirst /\ [][NextFirst]_vars

\* ------------------------------------------------------------------ claims
\* The composite string of a (service, username) pair, written out here so
\* that the claims do not depend on how the code builds its key.
Composite(p) == p[1] \o <<":">> \o p[2]
LastPair == <<last.service, last.username>>
\* Environments in which no OS-store call fails.
OsOk(self) == {e \in EnvsFor(self) : e.kr = "ok"}
FileSelected == constructed /\ ~KEYRING_AVAILABLE

\* C1: after a set_credential(service, identity, secret) that returned
\* normally, on an OS-selected or file-selected instance and whether or not
\* the OS-store call of the set failed, the get_credential(service, identity)
\* that follows returns secret. Stated for the gets whose own OS-store lookup
\* does not fail.
C1_RoundTrip ==
  (last.op = "set" /\ ~last.raised) =>
    \A e \in OsOk(Self) :
      get_credential(Self, last.service, last.username, e).ret = last.password

C3_DeleteRemoves ==
  last.op = "delete" =>
    \A e \in EnvsFor(Self) :
      get_credential(Self, last.service, last.username, e).ret = None

C5_GetNeverRaises ==
  constructed =>
    \A p \in Pairs, e \in EnvsFor(Self) :
      LET r == get_credential(Self, p[1], p[2], e)
      IN /\ ~r.raised
         /\ r.ret \in Secrets \cup {None}
         /\ (/\ ~KEYRING_AVAILABLE
             /\ \/ credsFile.kind = "garbage"
                \/ credsFile.kind = "enc" /\ credsFile.key # keyFile)
            => r.ret = None

\* C5 witness: get_credential has run on a file-selected instance whose blob
\* file holds bytes that do not decrypt.
C5_Witness == FileSelected /\ last.op = "get" /\ credsFile.kind = "garbage"

\* C6: on a file-selected instance with a valid key file, a set_credential
\* that meets no failing file write returns without raising, whatever the
\* blob held before, and afterwards the blob decrypts under the key to an
\* object that maps "s:i" to x, which get_credential returns.
C6_SetAfterCorruption ==
  (FileSelected /\ last.op = "set" /\ last.clean /\ keyFile.kind = "key") =>
    /\ ~last.raised
    /\ credsFile.kind = "enc" /\ credsFile.key = keyFile
    /\ credsFile.data.kind = "obj"
    /\ DictGet(credsFile.data.map, Composite(LastPair)) = last.password
    /\ get_credential(Self, last.service, last.username, AllOk).ret = last.password

\* C7: once the key file exists no call changes its bytes, and every call of
\* _get_or_create_key returns the bytes the key file holds.
C7_KeyPersistence ==
  /\ [][keyFile.kind # "absent" => keyFile' = keyFile]_vars
  /\ [](constructed =>
          \A e \in EnvsFor(Self) :
            LET r == _get_or_create_key(Self, e)
            IN /\ keyFile.kind # "absent" => (~r.raised /\ r.ret = keyFile)
               /\ ~r.raised => r.ret = r.self.keyFile)

\* C7 witness: _get_or_create_key was called when the key file already held
\* the key under which a blob with credentials is encrypted.
C7_Witness ==
  /\ last.op = "_get_or_create_key" /\ keyFile.kind = "key"
  /\ Stored(Self) # {} /\ credsFile.key = keyFile

\* C8: after a set_credential that wrote the file backend has returned, the
\* configuration directory has mode 0o700 and the key file and the blob file
\* have mode 0o600.
C8_Permissions ==
  (FileSelected /\ last.op = "set" /\ ~last.raised) =>
    (dirMode = "0o700" /\ keyMode = "0o600" /\ credsMode = "0o600")

\* C9: on a file-selected instance whose stored keys were made from
\* delimiter-free names, the (service, identity) pairs that list_credentials
\* returns are exactly the pairs for which get_credential returns a secret,
\* none twice, and the mapping is empty when nothing is stored.
Names == {nA, nB, nAA}
Colons(s) == Cardinality({i \in 1..Len(s) : s[i] = ":"})
Listed(l) == UNION {{<<s, l[s][i]>> : i \in 1..Len(l[s])} : s \in DOMAIN l}
C10_BackendFixed ==
  /\ [](last.op = "init" => KEYRING_AVAILABLE = last.clean)
  /\ [][last'.op # "init" => KEYRING_AVAILABLE' = KEYRING_AVAILABLE]_vars

\* C10 witness: on an OS-selected instance a set_credential whose OS-store
\* write failed has stored the credential in the blob and returned.
C10_Witness ==
  /\ KEYRING_AVAILABLE /\ last.op = "set" /\ ~last.clean /\ ~last.raised
  /\ Composite(LastPair) \in Stored(Self)

\* The blob decrypts under the key file's key to an object that maps k to v.
BlobHolds(self, k, v) ==
  /\ self.keyFile.kind = "key"
  /\ self.credsFile.kind = "enc" /\ self.credsFile.key = self.keyFile
  /\ self.credsFile.data.kind = "obj"
  /\ DictGet(self.credsFile.data.map, k) = v

\* C11: on an OS-selected instance get_credential(s, i) returns what the OS
\* store's lookup returns when the lookup does not raise, and absent when it
\* raises, whatever the blob file holds.
C11_OsLookupOnly ==
  (constructed /\ KEYRING_AVAILABLE) =>
    \A p \in Pairs, e \in EnvsFor(Self) :
      get_credential(Self, p[1], p[2], e).ret =
        IF e.kr = "ok" THEN DictGet(keyring, Composite(p)) ELSE None

\* C12: after a set_credential(s, i, x) that returned normally the OS store
\* maps "s:i" to x or the blob decrypts under the key to an object that maps
\* "s:i" to x; and a set_credential that takes the file path and meets a
\* failing write of the key file or of the blob file raises.
C12_SetNeverLoses ==
  /\ (last.op = "set" /\ ~last.raised) =>
       \/ DictGet(keyring, Composite(LastPair)) = last.password
       \/ BlobHolds(Self, Composite(LastPair), last.password)
  /\ constructed =>
       \A p \in Pairs, x \in Secrets, e \in EnvsFor(Self) :
         (/\ ~KEYRING_AVAILABLE \/ e.kr = "raise"
          /\ e.ioKey # "ok" \/ e.ioCreds # "ok")
         => set_credential(Self, p[1], p[2], x, e).raised

\* C12 witness: on an OS-selected instance a set_credential whose OS-store
\* write failed met a failing file write as well and raised.
C12_Witness ==
  KEYRING_AVAILABLE /\ last.op = "set" /\ ~last.clean /\ last.raised

\* C13: a credential stored by a set_credential that returned is returned by
\* get_credential on an instance constructed afterwards on the same
\* configuration directory, whatever that instance's probe returned. Stated
\* for sets and gets during which no OS-store call and no file write fails.
C13_PersistenceAcrossInstances ==
  (last.op = "set" /\ ~last.raised /\ last.clean) =>
    \A kr \in {"ok", "raise"} :
      LET later == CredentialManagerInit(Self, [AllOk EXCEPT !.kr = kr])
      IN get_credential(later, last.service, last.username, AllOk).ret = last.password

\* C14: on an OS-selected instance delete_credential(s, i) removes "s:i"
\* from the OS store when the OS store's delete does not raise, removes it
\* from the blob when no file write fails, also when the OS store's delete
\* raised, and after a call during which nothing failed neither the OS store
\* nor the blob holds "s:i".
C14_DeleteBothBackends ==
  /\ (KEYRING_AVAILABLE /\ last.op = "delete" /\ last.clean) =>
       /\ Composite(LastPair) \notin DOMAIN keyring
       /\ Composite(LastPair) \notin Stored(Self)
  /\ (constructed /\ KEYRING_AVAILABLE) =>
       \A p \in Pairs, e \in EnvsFor(Self) :
         LET r == delete_credential(Self, p[1], p[2], e)
         IN /\ e.kr = "ok" => Composite(p) \notin DOMAIN r.self.keyring
            /\ (e.ioKey = "ok" /\ e.ioCreds = "ok") => Composite(p) \notin Stored(r.self)

\* C14 witness: on an OS-selected instance a delete_credential whose
\* OS-store delete raised has left the key in the OS store and has left the
\* blob, rewritten by a delete, as an object without the key.
C14_Witness ==
  /\ KEYRING_AVAILABLE /\ last.op = "delete" /\ ~last.clean
  /\ Composite(LastPair) \in DOMAIN keyring
  /\ credsFile.kind = "enc" /\ credsFile.data = JsonDumps(EmptyDict)

\* C15: a prompt_and_store in which the user types a secret returns that
\* secret; when the answer to the store question is 'n' the OS store, the
\* blob file and what get_credential(service, identity) returns are as
\* before the call; for any other answer get_credential(service, identity)
\* returns the typed secret afterwards.
C15_PromptReturnsTyped ==
  constructed =>
    \A p \in Pairs, credential \in Secrets, store \in {"y", "n"},
       envGet \in PromptEnvs(Self) :
      \A envSet \in PromptEnvs(get_credential(Self, p[1], p[2], envGet).self) :
        LET r == prompt_and_store(Self, p[1], p[2], "n", credential, store,
                                  envGet, envSet)
        IN /\ ~r.raised /\ r.ret = credential
           /\ store = "n" =>
                /\ r.self.keyring = keyring /\ r.self.credsFile = credsFile
                /\ \A e \in OsOk(Self) :
                     get_credential(r.self, p[1], p[2], e).ret
                       = get_credential(Self, p[1], p[2], e).ret
           /\ store # "n" =>
                \A e \in OsOk(r.self) :
                  get_credential(r.self, p[1], p[2], e).ret = credential

\* C16: when get_credential(service, identity) returns a stored secret and
\* the answer to the reuse question is not 'n', prompt_and_store returns the
\* stored secret, whatever would be typed, and leaves the OS store and the
\* blob file as they are; when the answer is 'n' and the answer to the store
\* question is not, get_credential(service, identity) returns the typed
\* secret afterwards.
C16_PromptReuse ==
  constructed =>
    \A p \in Pairs, credential \in Secrets, envGet \in PromptEnvs(Self) :
      LET g == get_credential(Self, p[1], p[2], envGet)
      IN g.ret \in Secrets =>
           \A envSet \in PromptEnvs(g.self) :
             LET reuse == prompt_and_store(Self, p[1], p[2], "y", credential, "y",
                                           envGet, envSet)
                 typed == prompt_and_store(Self, p[1], p[2], "n", credential, "y",
                                           envGet, envSet)
             IN /\ ~reuse.raised /\ reuse.ret = g.ret
                /\ reuse.self.keyring = keyring /\ reuse.self.credsFile = credsFile
                /\ ~typed.raised /\ typed.ret = credential
                /\ \A e \in OsOk(typed.self) :
                     get_credential(typed.self, p[1], p[2], e).ret = credential

\* The profile sections a reader of the credentials file finds.
Profiles(text) == ReadString(text).config
\* A step in which _setup_sbpack_credentials was called and returned True.
SetupReturnedTrue ==
  \/ sb'.last.op = "setup" /\ sb'.last.ret
  \/ sb'.last.op = "deploy" /\ sb'.last.setup = "True"

\* C17: in every call of _setup_sbpack_credentials(token, P) that returns
\* True, directly or inside deploy_to_cgc, each profile section Q # P of the
\* file before the call is in the file after it with the same options and
\* values, and no section other than P is new.
C17_OtherProfilesKept ==
  [][SetupReturnedTrue =>
       /\ \A q \in DOMAIN Profiles(sb.file) \ {sb'.last.profile_name} :
            /\ q \in DOMAIN Profiles(sb'.file)
            /\ Profiles(sb'.file)[q] = Profiles(sb.file)[q]
       /\ DOMAIN Profiles(sb'.file)
            \subseteq DOMAIN Profiles(sb.file) \cup {sb'.last.profile_name}]_vars

\* C17 witness: a _setup_sbpack_credentials that returned True has left a
\* file with its own profile and two more.
C17_Witness ==
  /\ sb.last.op = "setup" /\ sb.last.ret
  /\ Cardinality(DOMAIN Profiles(sb.file)) = 3

\* The section P of the file after _setup_sbpack_credentials(token, P):
\* auth_token as given, api_endpoint of the platform P or the CGC endpoint.
ProfileWritten(auth_token) ==
  /\ sb.file.kind = "ini"
  /\ sb.last.profile_name \in DOMAIN Profiles(sb.file)
  /\ LET section == Profiles(sb.file)[sb.last.profile_name]
     IN /\ {"api_endpoint", "auth_token"} \subseteq DOMAIN section
        /\ section["auth_token"] = auth_token
        /\ section["api_endpoint"] =
             CASE sb.last.profile_name = "cgc" -> <<"https://cgc-api.sbgenomics.com/v2">>
               [] sb.last.profile_name = "sbg-us" -> <<"https://api.sbgenomics.com/v2">>
               [] OTHER -> <<"https://cgc-api.sbgenomics.com/v2">>
  /\ sb.fileMode = "0o600"
\* A value without the blanks at its two ends.
WithoutBlanks(v) ==
  LET idx == {i \in 1..Len(v) : v[i] # " "}
  IN IF idx = {} THEN <<>>
     ELSE SubSeq(v, CHOOSE i \in idx : \A j \in idx : i <= j,
                    CHOOSE i \in idx : \A j \in idx : j <= i)

\* C18 as stated: after _setup_sbpack_credentials(token, P) returned True the
\* file has the section P with auth_token equal to token and the api_endpoint
\* of P, and the file has mode 0o600.
C18_ProfileUpdate ==
  (sb.last.op = "setup" /\ sb.last.ret) => ProfileWritten(sb.last.token)

\* C18 amended: after _setup_sbpack_credentials(token, P) returned True the
\* file has the section P with auth_token equal to token without its leading
\* and trailing blanks and the api_endpoint of P, and the file has mode 0o600.
C18_ProfileUpdateStripped ==
  (sb.last.op = "setup" /\ sb.last.ret) => ProfileWritten(WithoutBlanks(sb.last.token))

\* C18 witness: _setup_sbpack_credentials returned True for a token that
\* ends in a blank and the profile of a platform with its own endpoint.
C18_Witness ==
  /\ sb.last.op = "setup" /\ sb.last.ret
  /\ sb.last.token = <<"t", " ">> /\ sb.last.profile_name = "sbg-us"

\* C19: _setup_sbpack_credentials never raises and returns False when the
\* directory cannot be created or the file cannot be read or written; a
\* deploy_to_cgc in which it returned False returns False and has not run
\* the sbpack deployment command.
C19_SetupNeverRaises ==
  /\ \A token \in Tokens, profile_name \in ProfileNames, e \in SbEnvsFor(sb) :
       LET r == _setup_sbpack_credentials(sb, token, profile_name, e)
       IN /\ ~r.raised
          /\ (e.mkdir = "denied" \/ e.read = "denied" \/ e.write # "ok") => ~r.ret
  /\ sb.last.op = "deploy" =>
       /\ ~sb.last.raised
       /\ sb.last.setup = "False" => (~sb.last.ret /\ ~sb.last.ran)

\* C19 witness: a deploy_to_cgc whose credentials setup met a refused or
\* failing file operation and returned False.
C19_Witness ==
  sb.last.op = "deploy" /\ sb.last.setup = "False" /\ ~sb.last.clean

\* C20: once both processes have returned from set_credential the blob file
\* decrypts under the key to the object that the process that wrote last
\* encrypted, which maps that process's "s:i" to its secret.
C20_LastWriterWins ==
  (\A p \in Procs : race.pc[p] = "done") =>
    LET d == RaceRead(race.file)
        a == race.args[race.wrote]
    IN /\ ~d.raised
       /\ d.creds = race.token[race.wrote].enc.data.map
       /\ DictGet(d.creds, a.service \o <<":">> \o a.username) = a.password

\* C21: while one process alone is inside set_credential's file branch, in
\* every state, those between the open for writing and the end of the write
\* included, the blob file that exists decrypts to a complete object.
C21_AtomicRewrite ==
  (race.exists /\ race.pc["q"] = "start") => ~RaceRead(race.file).raised

\* C30: get_credential and list_credentials leave the blob file and the OS
\* store as they are, and on a file-selected instance without a blob file
\* they return absent and the empty mapping and create no key file.
C30_ReadsDoNotWrite ==
  constructed =>
    \A e \in EnvsFor(Self) :
      LET l == list_credentials(Self, e)
      IN /\ l.self.credsFile = credsFile /\ l.self.keyring = keyring
         /\ ~l.raised
         /\ (~KEYRING_AVAILABLE /\ credsFile.kind = "absent") =>
              (l.ret = EmptyDict /\ l.self.keyFile = keyFile)
         /\ \A p \in Pairs :
              LET g == get_credential(Self, p[1], p[2], e)
              IN /\ g.self.credsFile = credsFile /\ g.self.keyring = keyring
                 /\ (~KEYRING_AVAILABLE /\ credsFile.kind = "absent") =>
                      (g.ret = None /\ g.self.keyFile = keyFile)

\* C30 witness: get_credential has run on a file-selected instance that has
\* neither a blob file nor a key file.
C30_Witness ==
  /\ FileSelected /\ last.op = "get"
  /\ credsFile.kind = "absent" /\ keyFile.kind = "absent"

\* C23: on an OS-selected instance a set_credential whose OS-store write
\* succeeds returns with the credential in the OS store and with the key
\* file and the blob file as they were; one whose OS-store write raises,
\* and that meets no failing file write, returns without raising with the
\* credential in the blob.
C23_WriteThrough ==
  (constructed /\ KEYRING_AVAILABLE) =>
    \A p \in Pairs, x \in Secrets, e \in EnvsFor(Self) :
      LET r == set_credential(Self, p[1], p[2], x, e)
      IN /\ e.kr = "ok" =>
              /\ ~r.raised
              /\ DictGet(r.self.keyring, Composite(p)) = x
              /\ r.self.keyFile = keyFile /\ r.self.credsFile = credsFile
         /\ (e.kr = "raise" /\ e.ioKey = "ok" /\ e.ioCreds = "ok") =>
              /\ ~r.raised
              /\ BlobHolds(r.self, Composite(p), x)

\* C22: on a file-selected instance that started from an empty
\* configuration directory, every completed set_credential(s, i, x) makes
\* get_credential return x for "s:i", every completed delete_credential(s, i)
\* makes it return absent for "s:i", and both leave what get_credential
\* returns for every other composite key as it was; so get_credential returns
\* the secret of the most recent set that no delete followed.
C22_RefinesMap ==
  [][(/\ FileSelected /\ ~KEYRING_AVAILABLE'
      /\ last'.op \in {"set", "delete"} /\ ~last'.raised)
     => \A p \in Pairs :
          get_credential(Self', p[1], p[2], AllOk).ret =
            IF Composite(p) = Composite(<<last'.service, last'.username>>)
            THEN (IF last'.op = "set" THEN last'.password ELSE None)
            ELSE get_credential(Self, p[1], p[2], AllOk).ret]_vars

\* C24: list_credentials splits each stored key at its first ':' only, so a
\* credential set under a service without ':' is listed with its identity
\* unchanged under that service; and a stored key without any ':' neither
\* makes list_credentials raise nor removes a well-formed stored key from
\* the listing, in whatever order the blob holds its members.
C24_MalformedKeySkipped ==
  FileSelected =>
    \A order \in KeyOrders(Stored(Self)) :
      LET l == list_credentials_ordered(Self, AllOk, order)
      IN /\ ~l.raised
         /\ \A p \in Pairs :
              (Composite(p) \in Stored(Self) /\ FirstColon(p[1], 1) = 0)
                => /\ p[1] \in DOMAIN l.ret
                   /\ \E i \in 1..Len(l.ret[p[1]]) : l.ret[p[1]][i] = p[2]

\* The name of the token variable of a platform, spelled out.
TokenVar(platform) ==
  CASE platform = "cgc" -> <<"S", "B", "_", "C", "G", "C", "_", "T", "O", "K", "E", "N">>
    [] platform = "sbg-us" ->
         <<"S", "B", "_", "S", "B", "G", "_", "U", "S", "_", "T", "O", "K", "E", "N">>
\* os.environ with any of the two token variables set.
PrecedenceEnvirons ==
  {[n \in {TokenVar(p) : p \in ps} |-> <<"t">>] : ps \in SUBSET {"cgc", "sbg-us"}}

\* C27: with the checks of deploy_to_cgc passed and a known platform, both
\* deploy_to_cgc and list_apps use the token argument if it is not empty,
\* else the stored token if there is one, else the value of
\* SB_<PLATFORM>_TOKEN (upper case, '-' as '_'); when all three are missing
\* deploy_to_cgc returns False without writing the credentials file or
\* running sbpack and list_apps returns the empty list without contacting
\* the platform.
C27_TokenPrecedence ==
  \A token \in {NoToken, <<"a">>}, platform \in {"cgc", "sbg-us"},
     stored \in {NoToken, <<"u">>}, environ \in PrecedenceEnvirons :
    LET expected == IF token # NoToken THEN token
                    ELSE IF stored # NoToken THEN stored
                    ELSE EnvironGet(environ, TokenVar(platform))
        d == deploy_to_cgc(sb, token, platform,
                           [available |-> TRUE, exists |-> TRUE, valid |-> TRUE,
                            stored |-> stored, environ |-> environ,
                            setup |-> SbAllOk, run |-> "ok"])
        l == list_apps(sb, token, platform,
                       [stored |-> stored, environ |-> environ, query |-> "ok",
                        apps |-> <<"app">>])
    IN /\ d.token = expected /\ l.token = expected
       /\ expected = NoToken =>
            /\ ~d.ret /\ ~d.ran /\ d.setup = "not called" /\ d.s = sb
            /\ l.ret = <<>> /\ ~l.contacted /\ l.s = sb
       /\ expected # NoToken =>
            /\ d.setup # "not called" /\ (d.ran <=> d.setup = "True")
            /\ l.contacted /\ l.ret = <<"app">>
\* list_apps has just used the token of the environment variable, no token
\* argument and no stored token being there.
C27_Witness ==
  /\ sb.last.op = "list_apps" /\ sb.last.token = <<"t">>
  /\ sb.last.profile_name = "sbg-us" /\ sb.last.ran /\ sb.last.ret

\* C25: login_to_platform called with non_interactive=True never calls
\* prompt_and_store, input or getpass, whatever the other arguments and the
\* environment; with no token argument and no stored token for the platform
\* it returns False without making the connection test and without touching
\* the credentials file.
C25_NonInteractiveNeverPrompts ==
  constructed =>
    \A platform \in {"cgc", "custom"}, token \in {None, ""} \cup Secrets,
       force_new \in BOOLEAN :
      \A in \in LoginIns(Self, platform, token, force_new, TRUE) :
        \A r \in {login_to_platform(Self, sb, platform, token, force_new, TRUE, in)} :
          /\ ~r.prompted
          /\ ~r.raised
          /\ (/\ ~Truthy(token)
              /\ ~Truthy(get_credential(Self, Chars(platform), AuthToken,
                                        KrEnv(in[1].krGet)).ret))
               => ~r.ret /\ ~r.contacted /\ r.s = sb
\* A non-interactive login to a known platform without a token argument and
\* without a stored token has returned False.
C25_Witness ==
  /\ sb.last.op = "login" /\ sb.last.non_interactive
  /\ sb.last.profile_name = "cgc" /\ sb.last.token = NoToken
  /\ ~sb.last.ret /\ ~sb.last.ran /\ ~sb.last.prompted

\* C26: whenever login_to_platform returns False, what get_credential
\* returns for (platform, 'auth_token') is what it returned before the call:
\* a token is stored only after the connection test with it has succeeded.
C26_StoreOnlyWorkingToken ==
  constructed =>
    \A platform \in {"cgc", "custom"}, token \in {None, "x"},
       force_new \in BOOLEAN, non_interactive \in BOOLEAN :
      \A in \in LoginIns(Self, platform, token, force_new, non_interactive) :
        \A r \in {login_to_platform(Self, sb, platform, token, force_new,
                                    non_interactive, in)} :
          (~r.ret /\ ~r.raised) =>
            \A kr \in KrOutcomes(Self) :
              get_credential(r.self, Chars(platform), AuthToken, KrEnv(kr)).ret
                = get_credential(Self, Chars(platform), AuthToken, KrEnv(kr)).ret

C29_OneKey ==
  (\A p \in Procs : first.pc[p] \in {"done", "raised"}) =>
    /\ FernetValid(first.keyFile)
    /\ first.blob.kind # "absent" => ~Decrypt(first.keyFile, first.blob).raised

====
